---- MODULE Spec2Model ----
(***************************************************************************)
(* Model of the membership roster pipeline of membershipship:              *)
(* viewHomeHandler -> fetchMemberData -> readCSVFromUrl -> parseDate.      *)
(*                                                                         *)
(* Strings are sequences of one-character strings, so that TrimSpace and   *)
(* the layout-driven date parsing of time.Parse are computed character by  *)
(* character.  A time.Time is modelled by its calendar date [y, m, d].     *)
(* Row indices are those of the Go code (0-based): row i of `data` is      *)
(* data[i + 1], field j of a row is row[j + 1].                            *)
(***************************************************************************)
EXTENDS Integers, Sequences, FiniteSets, TLC

\* -------------------------------------------------------------------------
\* Bounds of the model
\* -------------------------------------------------------------------------

\* largest day/month number written in a generated date string
MaxDay == 32

\* longest feed (in lines) among the feeds of mixed shape
MaxLines == 3

\* how many times midnight may pass during one request
MaxTicks == 1

\* -------------------------------------------------------------------------
\* Characters and strings
\* -------------------------------------------------------------------------

Digits == <<"0", "1", "2", "3", "4", "5", "6", "7", "8", "9">>

DigitSet == {Digits[k] : k \in DOMAIN Digits}

DigitVal(c) == (CHOOSE k \in DOMAIN Digits : Digits[k] = c) - 1

\* unicode.IsSpace restricted to the characters that occur in the model
IsSpace(c) == c \in {" ", "\t"}

RECURSIVE TrimLeft(_)
TrimLeft(s) ==
  IF s # <<>> /\ IsSpace(Head(s)) THEN TrimLeft(Tail(s)) ELSE s

RECURSIVE TrimRight(_)
TrimRight(s) ==
  IF s # <<>> /\ IsSpace(s[Len(s)])
    THEN TrimRight(SubSeq(s, 1, Len(s) - 1))
    ELSE s

\* strings.TrimSpace
TrimSpace(s) == TrimRight(TrimLeft(s))

\* -------------------------------------------------------------------------
\* Calendar (package time)
\* -------------------------------------------------------------------------

isLeap(year) == year % 4 = 0 /\ (year % 100 # 0 \/ year % 400 = 0)

daysIn(month, year) ==
  IF month = 2 THEN (IF isLeap(year) THEN 29 ELSE 28)
  ELSE IF month \in {4, 6, 9, 11} THEN 30 ELSE 31

\* time.Date(y, m, d, ...): a day past the end of the month rolls over into
\* the following month(s), a month past December into the following year.
RECURSIVE Date(_, _, _)
Date(y, m, d) ==
  IF m > 12 THEN Date(y + 1, m - 12, d)
  ELSE IF d > daysIn(m, y) THEN Date(y, m + 1, d - daysIn(m, y))
  ELSE [y |-> y, m |-> m, d |-> d]

\* AddDate that clamps to the last day of the month instead of rolling over
AddDateClamp(t, years, months, days) ==
  LET m == t.m + months
      y == t.y + years
      d == t.d + days
  IN  IF m <= 12 /\ d > daysIn(m, y)
        THEN [y |-> y, m |-> m, d |-> daysIn(m, y)]
        ELSE Date(y, m, d)

\* Time.AddDate(years, months, days) for non-negative arguments
AddDate(t, years, months, days) ==
  Date(t.y + years, t.m + months, t.d + days)

\* the zero time.Time{}
ZeroTime == [y |-> 1, m |-> 1, d |-> 1]

\* -------------------------------------------------------------------------
\* time.Parse for the layouts parseDate uses
\* -------------------------------------------------------------------------

isDigit(s, k) == Len(s) >= k + 1 /\ s[k + 1] \in DigitSet

NoNum == [ok |-> FALSE, n |-> 0, rest |-> <<>>]

\* getnum that takes exactly one digit for a non-fixed element
getnumOneDigit(s, fixed) ==
  IF ~isDigit(s, 0) THEN NoNum
  ELSE IF fixed
    THEN (IF ~isDigit(s, 1) THEN NoNum
          ELSE [ok |-> TRUE,
                n |-> DigitVal(s[1]) * 10 + DigitVal(s[2]),
                rest |-> SubSeq(s, 3, Len(s))])
    ELSE [ok |-> TRUE, n |-> DigitVal(s[1]), rest |-> Tail(s)]

\* getnum(s, fixed): one or two leading digits; exactly two when fixed
getnum(s, fixed) ==
  IF ~isDigit(s, 0) THEN NoNum
  ELSE IF ~isDigit(s, 1)
    THEN (IF fixed THEN NoNum
          ELSE [ok |-> TRUE, n |-> DigitVal(s[1]), rest |-> Tail(s)])
    ELSE [ok |-> TRUE,
          n |-> DigitVal(s[1]) * 10 + DigitVal(s[2]),
          rest |-> SubSeq(s, 3, Len(s))]

\* A layout is the sequence of its elements: "02" and "2" (day, fixed or
\* not), "01" and "1" (month), "2006" (four-digit year), "/" (literal).
ParseFail == [ok |-> FALSE, t |-> ZeroTime]

\* The end of time.Parse: defaults for the elements the layout lacks, then
\* the validation of the day of the month.
Validate(acc) ==
  LET month == IF acc.m < 0 THEN 1 ELSE acc.m
      day   == IF acc.d < 0 THEN 1 ELSE acc.d
  IN  IF day < 1 \/ day > daysIn(month, acc.y)
        THEN ParseFail
        ELSE [ok |-> TRUE, t |-> [y |-> acc.y, m |-> month, d |-> day]]

RECURSIVE ParseElems(_, _, _, _)
ParseElems(layout, k, value, acc) ==
  IF k > Len(layout)
    THEN (IF value # <<>> THEN ParseFail ELSE Validate(acc))
  ELSE LET el == layout[k] IN
    IF el = "/"
      THEN (IF value # <<>> /\ Head(value) = "/"
              THEN ParseElems(layout, k + 1, Tail(value), acc)
              ELSE ParseFail)
    ELSE IF el \in {"2", "02"}
      THEN LET r == getnum(value, el = "02") IN
           IF r.ok
             THEN ParseElems(layout, k + 1, r.rest, [acc EXCEPT !.d = r.n])
             ELSE ParseFail
    ELSE IF el \in {"1", "01"}
      THEN LET r == getnum(value, el = "01") IN
           IF r.ok /\ r.n >= 1 /\ r.n <= 12
             THEN ParseElems(layout, k + 1, r.rest, [acc EXCEPT !.m = r.n])
             ELSE ParseFail
    ELSE \* "2006"
      IF Len(value) >= 4 /\ \A j \in 0..3 : isDigit(value, j)
        THEN ParseElems(layout, k + 1, SubSeq(value, 5, Len(value)),
               [acc EXCEPT !.y = DigitVal(value[1]) * 1000
                                + DigitVal(value[2]) * 100
                                + DigitVal(value[3]) * 10
                                + DigitVal(value[4])])
        ELSE ParseFail

\* time.Parse(layout, value)
timeParse(layout, value) ==
  ParseElems(layout, 1, value, [y |-> 0, m |-> -1, d |-> -1])

DDMMYYYY == <<"02", "/", "01", "/", "2006">>
DMYYYY   == <<"2", "/", "1", "/", "2006">>
MDYYYY   == <<"1", "/", "2", "/", "2006">>
DDMYYYY  == <<"02", "/", "1", "/", "2006">>
DMMYYYY  == <<"2", "/", "01", "/", "2006">>
YYYY     == <<"2006">>

\* the layouts with the month-first ones put before the day-first ones
layoutsMonthFirst(v) ==
  <<MDYYYY, DDMMYYYY, DMYYYY, DDMYYYY, DMMYYYY>>
    \o (IF v = "main" THEN <<YYYY>> ELSE <<>>)

\* the layouts of parseDate, in the order it tries them; the variant of
\* membershipship.go has the bare year as a sixth layout
layouts(v) ==
  <<DDMMYYYY, DMYYYY, MDYYYY, DDMYYYY, DMMYYYY>>
    \o (IF v = "main" THEN <<YYYY>> ELSE <<>>)

\* for _, layout := range layouts: index of the first layout, from the k-th
\* on, that parses s; 0 if none does
RECURSIVE tryLayouts(_, _, _)
tryLayouts(ls, k, s) ==
  IF k > Len(ls) THEN 0
  ELSE IF timeParse(ls[k], s).ok THEN k
  ELSE tryLayouts(ls, k + 1, s)

\* index of the first layout of ls that parses the trimmed string, 0 if none
FirstMatch(ls, dateStr) == tryLayouts(ls, 1, TrimSpace(dateStr))

\* the loop of parseDate over a list of layouts
parseWith(ls, dateStr) ==
  LET k == FirstMatch(ls, dateStr)
  IN  IF k = 0 THEN [err |-> TRUE, t |-> ZeroTime]
      ELSE [err |-> FALSE, t |-> timeParse(ls[k], TrimSpace(dateStr)).t]

\* parseDate(dateStr) of variant v
parseDate(v, dateStr) == parseWith(layouts(v), dateStr)

\* -------------------------------------------------------------------------
\* encoding/csv as readCSVFromUrl configures it (Comma ',', FieldsPerRecord 0)
\* -------------------------------------------------------------------------

\* A feed is the sequence of the lines of the remote resource.  A line is a
\* record of fields, an empty line, or a line with an unterminated quote.
Rec(fs) == [kind |-> "record", fields |-> fs]
Blank == [kind |-> "blank", fields |-> <<>>]
BadQuote == [kind |-> "badquote", fields |-> <<>>]

\* Reader.ReadAll: empty lines are skipped; a line that is not delimited
\* text ends the read with a parse error; with FieldsPerRecord = 0 the
\* first record fixes the field count (n) and a later record of another
\* count ends the read with ErrFieldCount.  On an error no rows are returned.
RECURSIVE readRecords(_, _, _, _)
readRecords(lines, k, n, rows) ==
  IF k > Len(lines) THEN [err |-> "none", rows |-> rows]
  ELSE LET ln == lines[k] IN
    IF ln.kind = "blank" THEN readRecords(lines, k + 1, n, rows)
    ELSE IF ln.kind = "badquote" THEN [err |-> "parse", rows |-> <<>>]
    ELSE IF n > 0 /\ Len(ln.fields) # n
      THEN [err |-> "fieldcount", rows |-> <<>>]
    ELSE readRecords(lines, k + 1, Len(ln.fields), Append(rows, ln.fields))

ReadAll(lines) == readRecords(lines, 1, 0, <<>>)

\* -------------------------------------------------------------------------
\* readCSVFromUrl: the row loop
\* -------------------------------------------------------------------------

\* the skip test without the header test
SkipRowKeepHeader(idx, row) == Len(row) < 6

\* the skip test with the column count off by one
SkipRowSeven(idx, row) == idx = 0 \/ Len(row) < 7

\* if i == 0 || len(row) < 6 { continue }
SkipRow(idx, row) == idx = 0 \/ Len(row) < 6

\* the fallback forgotten: joinDate stays the zero time parseDate returned
FallbackZero(now) == ZeroTime

\* joinDate = time.Now()
FallbackDate(now) == now

\* Member built with the columns shifted by one (0-based fields 0, 1, 2, 4)
NewMemberShifted(v, row, now) ==
  LET r == parseDate(v, row[5])
      joinDate == IF r.err THEN FallbackDate(now) ELSE r.t
  IN  [FirstName |-> TrimSpace(row[1]),
       LastName |-> TrimSpace(row[2]),
       Email |-> TrimSpace(row[3]),
       JoinDate |-> joinDate,
       ExpirationDate |-> AddDate(joinDate, 1, 0, 0)]

\* the Member the loop body builds from a retained row
NewMember(v, row, now) ==
  LET r == parseDate(v, row[6])
      joinDate == IF r.err THEN FallbackDate(now) ELSE r.t
  IN  [FirstName |-> TrimSpace(row[2]),
       LastName |-> TrimSpace(row[3]),
       Email |-> TrimSpace(row[4]),
       JoinDate |-> joinDate,
       ExpirationDate |-> AddDate(joinDate, 1, 0, 0)]

\* the defer registered only after the ReadAll error check
DeferredCloseLate(path) == IF path = "ok" THEN 1 ELSE 0

\* how many times the deferred resp.Body.Close() runs when readCSVFromUrl
\* returns on a path: "transport" returns before the defer is registered
DeferredClose(path) == IF path = "transport" THEN 0 ELSE 1

\* -------------------------------------------------------------------------
\* Inputs
\* -------------------------------------------------------------------------

Slash == <<"/">>

NumStr1(n) == <<Digits[n + 1]>>

NumStr2(n) == <<Digits[(n \div 10) + 1], Digits[(n % 10) + 1]>>

YearStr(y) == NumStr2(y \div 100) \o NumStr2(y % 100)

\* the one- and two-digit spellings of the numbers 0..MaxDay
NumForms ==
  {NumStr1(n) : n \in 0..9} \cup {NumStr2(n) : n \in 0..MaxDay}

\* every "a/b/2020" (a leap year) over those spellings
SlashDates ==
  {a \o Slash \o b \o Slash \o YearStr(2020) :
     a \in NumForms, b \in NumForms}

OddDates ==
  { <<>>,
    <<" ", " ">>,
    <<"n", "/", "a">>,
    <<"2", "0", "2", "0">>,
    <<" ", "2", "0", "2", "3", " ">>,
    <<"2", "0", "2">>,
    <<"2", "0", "2", "0", "0">>,
    <<" ", "3", "/", "4", "/", "2", "0", "2", "0", " ">>,
    <<"\t", "1", "/", "1", "3", "/", "2", "0", "2", "0">>,
    <<"3", "/", "4", "/", "2", "0">>,
    <<"3", "/", "4", "/", "2", "0", "2", "0", "0">>,
    <<"3", "/", "4", "/", "2", "0", "2", "0", "x">>,
    <<"3", "-", "4", "-", "2", "0", "2", "0">>,
    <<"1", "2", "3", "/", "4", "/", "2", "0", "2", "0">>,
    <<"3", "/", " ", "4", "/", "2", "0", "2", "0">>,
    <<"3", "/", "/", "2", "0", "2", "0">>,
    <<"2", "0", "2", "0", "/", "4", "/", "3">>,
    <<"2", "9", "/", "2", "/", "1", "9", "0", "0">>,
    <<"2", "/", "2", "8", "/", "1", "9", "0", "0">>,
    <<"2", "9", "/", "0", "2", "/", "2", "0", "0", "0">>,
    <<"2", "9", "/", "2", "/", "2", "0", "2", "3">>,
    <<"2", "/", "2", "9", "/", "2", "0", "2", "3">>,
    <<"0", "2", "/", "2", "8", "/", "2", "0", "2", "3">>,
    <<"2", "8", "/", "0", "2", "/", "2", "0", "2", "3">>,
    <<"3", "1", "/", "1", "2", "/", "2", "0", "2", "3">>,
    <<"1", "2", "/", "3", "1", "/", "2", "0", "2", "3">>,
    <<"0", "3", "/", "0", "4", "/", "2", "0", "2", "3">> }

DateStrings == SlashDates \cup OddDates

Header6 == << <<"i", "d">>, <<"f", "n">>, <<"l", "n">>, <<"e">>, <<"p">>, <<"j">> >>

Header4 == << <<"i", "d">>, <<"f", "n">>, <<"l", "n">>, <<"e">> >>

MemberRow(ds) ==
  << <<"7">>, <<" ", "A", "n", "n">>, <<"L", "e", "e", " ">>,
     <<"a", "@", "x">>, <<"5", "5", "5">>, ds >>

AnnRow == MemberRow(<<"1", "5", "/", "0", "3", "/", "2", "0", "2", "3">>)

BoRow4 == << <<"8">>, <<"B", "o">>, <<"K", "i", "m">>, <<"b", "@", "x">> >>

CyRow7 ==
  << <<"9">>, <<"C", "y">>, <<" ", "O", "h", " ">>, <<"c", "@", "x">>,
     <<>>, <<"n", "/", "a">>, <<"n", "o", "t", "e">> >>

DeeRow == 
  << <<>>, <<"D", "e", "e">>, <<"R", "o">>, <<" ", "d", "@", "x">>,
     <<"5">>, <<"s", "o", "o", "n">> >>

MixedLines ==
  {Blank, BadQuote, Rec(Header6), Rec(Header4), Rec(AnnRow), Rec(BoRow4),
   Rec(CyRow7), Rec(DeeRow)}

RECURSIVE SeqsUpTo(_, _)
SeqsUpTo(S, n) ==
  IF n = 0 THEN {<<>>}
  ELSE LET shorter == SeqsUpTo(S, n - 1)
       IN  shorter \cup {Append(q, x) : q \in {p \in shorter : Len(p) = n - 1}, x \in S}

\* feeds of every shape, with few date strings
MixedFeeds == SeqsUpTo(MixedLines, MaxLines)

\* one-member feeds over every date string
DateFeeds == {<<Rec(Header6), Rec(MemberRow(ds))>> : ds \in DateStrings}

Feeds == MixedFeeds \cup DateFeeds

\* a success and a non-success answer of the remote
StatusCodes == {200, 404}

\* -------------------------------------------------------------------------
\* State
\* -------------------------------------------------------------------------

VARIABLES
  variant,      \* "main": membershipship.go; "wallet": the Google-card variant
  feed,         \* the lines the remote serves at CSV_URL
  pc,           \* position of the request
  status,       \* resp.StatusCode, 0 while there is no response
  bodyRead,     \* ReadAll has consumed resp.Body (to its end or to an error)
  closeCount,   \* calls of resp.Body.Close()
  data,         \* the rows ReadAll returned
  i,            \* index of the row the loop is at
  members,      \* the []Member being built, then returned
  err,          \* the error readCSVFromUrl / fetchMemberData returns
  logged,       \* the log.Printf lines: row index and offending string
  clock,        \* what time.Now() returns
  ticks,        \* midnights passed since the request came in
  httpOut,      \* status code the handler answers with, 0 before it does
  twinData,     \* a second run on a feed that differs in fields 0, 4, 6+ only
  twinMembers

vars ==
  <<variant, feed, pc, status, bodyRead, closeCount, data, i, members, err,
    logged, clock, ticks, httpOut, twinData, twinMembers>>

\* the row with fields 0, 4 and 6.. replaced by other contents
Scramble(row) ==
  [j \in DOMAIN row |->
     IF j \in {2, 3, 4, 6} THEN row[j] ELSE <<"~">> \o row[j] \o <<" ">>]

ScrambleFeed(lines) ==
  [k \in DOMAIN lines |->
     IF lines[k].kind = "record"
       THEN Rec(Scramble(lines[k].fields))
       ELSE lines[k]]

Init ==
  /\ variant \in {"main", "wallet"}
  /\ feed \in Feeds
  /\ pc = "idle"
  /\ status = 0
  /\ bodyRead = FALSE
  /\ closeCount = 0
  /\ data = <<>>
  /\ i = 0
  /\ members = <<>>
  /\ err = "none"
  /\ logged = <<>>
  /\ clock = [y |-> 2024, m |-> 2, d |-> 28]
  /\ ticks = 0
  /\ httpOut = 0
  /\ twinData = <<>>
  /\ twinMembers = <<>>

\* -------------------------------------------------------------------------
\* Actions
\* -------------------------------------------------------------------------

\* viewHomeHandler of membershipship.go: loadPage("home") fails, redirect
ViewHomeRedirect ==
  /\ pc = "idle"
  /\ variant = "main"
  /\ pc' = "done"
  /\ httpOut' = 302
  /\ UNCHANGED <<variant, feed, status, bodyRead, closeCount, data, i,
                 members, err, logged, clock, ticks, twinData, twinMembers>>

\* fetchMemberData with CSV_URL unset: error, answered with a 500
FetchNoUrl ==
  /\ pc = "idle"
  /\ pc' = "done"
  /\ err' = "nourl"
  /\ httpOut' = 500
  /\ UNCHANGED <<variant, feed, status, bodyRead, closeCount, data, i,
                 members, logged, clock, ticks, twinData, twinMembers>>

\* fetchMemberData with CSV_URL set: readCSVFromUrl(url) is entered
FetchMemberData ==
  /\ pc = "idle"
  /\ pc' = "get"
  /\ UNCHANGED <<variant, feed, status, bodyRead, closeCount, data, i,
                 members, err, logged, clock, ticks, httpOut, twinData,
                 twinMembers>>

\* http.Get returns an error: return nil, err (no defer registered yet)
HttpGetFail ==
  /\ pc = "get"
  /\ pc' = "returned"
  /\ err' = "transport"
  /\ members' = <<>>
  /\ closeCount' = closeCount + DeferredClose("transport")
  /\ UNCHANGED <<variant, feed, status, bodyRead, data, i, logged, clock,
                 ticks, httpOut, twinData, twinMembers>>

\* http.Get returns a response, whatever its status code
HttpGetOk ==
  /\ pc = "get"
  /\ \E code \in StatusCodes : status' = code
  /\ pc' = "read"
  /\ UNCHANGED <<variant, feed, bodyRead, closeCount, data, i, members, err,
                 logged, clock, ticks, httpOut, twinData, twinMembers>>

\* reader.ReadAll() fails: return nil, err; the deferred Close runs
ReadAllFail ==
  /\ pc = "read"
  /\ ReadAll(feed).err # "none"
  /\ bodyRead' = TRUE
  /\ err' = ReadAll(feed).err
  /\ members' = <<>>
  /\ closeCount' = closeCount + DeferredClose("decode")
  /\ pc' = "returned"
  /\ UNCHANGED <<variant, feed, status, data, i, logged, clock, ticks,
                 httpOut, twinData, twinMembers>>

\* reader.ReadAll() returns the rows; the loop starts at row 0
ReadAllOk ==
  /\ pc = "read"
  /\ ReadAll(feed).err = "none"
  /\ bodyRead' = TRUE
  /\ data' = ReadAll(feed).rows
  /\ twinData' = ReadAll(ScrambleFeed(feed)).rows
  /\ i' = 0
  /\ pc' = "loop"
  /\ UNCHANGED <<variant, feed, status, closeCount, members, err, logged,
                 clock, ticks, httpOut, twinMembers>>

\* one iteration of the loop on a row that is skipped
LoopSkip ==
  /\ pc = "loop"
  /\ i < Len(data)
  /\ SkipRow(i, data[i + 1])
  /\ i' = i + 1
  /\ UNCHANGED <<variant, feed, pc, status, bodyRead, closeCount, data,
                 members, err, logged, clock, ticks, httpOut, twinData,
                 twinMembers>>

\* one iteration of the loop on a retained row
LoopEmit ==
  /\ pc = "loop"
  /\ i < Len(data)
  /\ ~SkipRow(i, data[i + 1])
  /\ logged' =
       IF parseDate(variant, data[i + 1][6]).err
         THEN Append(logged, [row |-> i, str |-> TrimSpace(data[i + 1][6])])
         ELSE logged
  /\ members' = Append(members, NewMember(variant, data[i + 1], clock))
  /\ twinMembers' =
       Append(twinMembers, NewMember(variant, twinData[i + 1], clock))
  /\ i' = i + 1
  /\ UNCHANGED <<variant, feed, pc, status, bodyRead, closeCount, data, err,
                 clock, ticks, httpOut, twinData>>

\* the loop is over: return members, nil; the deferred Close runs
ReturnMembers ==
  /\ pc = "loop"
  /\ i = Len(data)
  /\ closeCount' = closeCount + DeferredClose("ok")
  /\ pc' = "returned"
  /\ UNCHANGED <<variant, feed, status, bodyRead, data, i, members, err,
                 logged, clock, ticks, httpOut, twinData, twinMembers>>

\* viewHomeHandler after fetchMemberData: a 500 on an error, else the page
Respond ==
  /\ pc = "returned"
  /\ httpOut' = IF err # "none" THEN 500 ELSE 200
  /\ pc' = "done"
  /\ UNCHANGED <<variant, feed, status, bodyRead, closeCount, data, i,
                 members, err, logged, clock, ticks, twinData, twinMembers>>

\* midnight passes while the rows are processed (the clock is read nowhere
\* else)
Tick ==
  /\ pc = "loop"
  /\ ticks < MaxTicks
  /\ ticks' = ticks + 1
  /\ clock' = AddDate(clock, 0, 0, 1)
  /\ UNCHANGED <<variant, feed, pc, status, bodyRead, closeCount, data, i,
                 members, err, logged, httpOut, twinData, twinMembers>>

Next ==
  \/ ViewHomeRedirect
  \/ FetchNoUrl
  \/ FetchMemberData
  \/ HttpGetFail
  \/ HttpGetOk
  \/ ReadAllFail
  \/ ReadAllOk
  \/ LoopSkip
  \/ LoopEmit
  \/ ReturnMembers
  \/ Respond
  \/ Tick

Spec == Init /\ [][Next]_vars

\* -------------------------------------------------------------------------
\* Vocabulary of the properties (defined apart from the operators above)
\* -------------------------------------------------------------------------

Returned == pc \in {"returned", "done"} /\ err # "nourl" /\ httpOut # 302

\* 0-based indices of the rows that are retained: index >= 1, >= 6 fields
RetainedIdx(rows) ==
  SelectSeq([k \in 1..Len(rows) |-> k - 1],
            LAMBDA x : x >= 1 /\ Len(rows[x + 1]) >= 6)

\* the records of a feed, in order (what a tolerant reader would decode)
RecordsOf(lines) ==
  LET recs == SelectSeq(lines, LAMBDA ln : ln.kind = "record")
  IN  [k \in 1..Len(recs) |-> recs[k].fields]

\* every member built so far has its retained row
Aligned == Len(members) <= Len(RetainedIdx(data))

\* the row (and its index) that member k was built from
IdxOf(k) == RetainedIdx(data)[k]
RowOf(k) == data[IdxOf(k) + 1]

\* t is s without its leading and trailing white space
IsTrimOf(t, s) ==
  /\ t # <<>> => ~IsSpace(t[1]) /\ ~IsSpace(t[Len(t)])
  /\ \E a \in 0..Len(s) :
       /\ a + Len(t) <= Len(s)
       /\ SubSeq(s, a + 1, a + Len(t)) = t
       /\ \A j \in 1..Len(s) : (j <= a \/ j > a + Len(t)) => IsSpace(s[j])

NamesFrom(m, row) ==
  /\ IsTrimOf(m.FirstName, row[2])
  /\ IsTrimOf(m.LastName, row[3])
  /\ IsTrimOf(m.Email, row[4])

RECURSIVE Decimal(_)
Decimal(s) ==
  IF s = <<>> THEN 0
  ELSE Decimal(SubSeq(s, 1, Len(s) - 1)) * 10 + DigitVal(s[Len(s)])

AllDigits(s) == \A j \in 1..Len(s) : s[j] \in DigitSet

\* reading of a string "a/b/yyyy": a and b of one or two digits, yyyy of four
SlashForm(s) ==
  LET cuts == {j \in 1..Len(s) : s[j] = "/"}
  IN  IF Cardinality(cuts) # 2 THEN [ok |-> FALSE, a |-> 0, b |-> 0, y |-> 0]
      ELSE LET p == CHOOSE j \in cuts : \A h \in cuts : j <= h
               q == CHOOSE j \in cuts : \A h \in cuts : j >= h
               sa == SubSeq(s, 1, p - 1)
               sb == SubSeq(s, p + 1, q - 1)
               sy == SubSeq(s, q + 1, Len(s))
           IN  IF /\ Len(sa) \in {1, 2} /\ Len(sb) \in {1, 2} /\ Len(sy) = 4
                  /\ AllDigits(sa) /\ AllDigits(sb) /\ AllDigits(sy)
                 THEN [ok |-> TRUE, a |-> Decimal(sa), b |-> Decimal(sb),
                       y |-> Decimal(sy)]
                 ELSE [ok |-> FALSE, a |-> 0, b |-> 0, y |-> 0]

\* the slash reading of the join-date field of member k's row
FormOf(k) == SlashForm(TrimSpace(RowOf(k)[6]))

Parsed(k) == ~parseDate(variant, RowOf(k)[6]).err

IsFeb29(t) == t.m = 2 /\ t.d = 29

\* -------------------------------------------------------------------------
\* Properties
\* -------------------------------------------------------------------------

\* C1: whenever the remote answered, every line of the feed is delimited
\* text, the first row has at least 6 fields and every other row has either
\* as many fields as the first or fewer than 6, readCSVFromUrl returns
\* without error and with one record per row of index >= 1 that has at
\* least 6 fields: the short rows produce nothing and fail nothing.
C1_ShortRowsTolerated ==
  LET rows == RecordsOf(feed) IN
    ( /\ Returned /\ status # 0
      /\ \A k \in DOMAIN feed : feed[k].kind # "badquote"
      /\ rows # <<>> /\ Len(rows[1]) >= 6
      /\ \A r \in 1..Len(rows) :
           Len(rows[r]) = Len(rows[1]) \/ Len(rows[r]) < 6 )
      => /\ err = "none"
         /\ Len(members) = Len(RetainedIdx(rows))

\* C2 (as stated): every record of a row whose join date parsed expires on
\* the same month and day as it joined, one year later, 29 February included.
C2_SameMonthDay ==
  Aligned /\ \A k \in 1..Len(members) :
    Parsed(k) =>
      members[k].ExpirationDate =
        [y |-> members[k].JoinDate.y + 1,
         m |-> members[k].JoinDate.m,
         d |-> members[k].JoinDate.d]

\* C2 (amended): every record of a row whose join date parsed expires one
\* year later on the same month and day, except a join date of 29 February,
\* which expires on 1 March of the following year.
C2_OneYearLater ==
  Aligned /\ \A k \in 1..Len(members) :
    Parsed(k) =>
      LET j == members[k].JoinDate IN
        /\ j = parseDate(variant, RowOf(k)[6]).t
        /\ members[k].ExpirationDate =
             IF IsFeb29(j) THEN [y |-> j.y + 1, m |-> 3, d |-> 1]
             ELSE [y |-> j.y + 1, m |-> j.m, d |-> j.d]

C2_Witness ==
  /\ Aligned
  /\ \E k \in 1..Len(members) :
       /\ Parsed(k)
       /\ IsFeb29(members[k].JoinDate)
       /\ members[k].ExpirationDate.m = 3
  /\ pc = "returned"

\* C3: a join date "a/b/yyyy" with both a and b between 1 and 12 is read
\* day-first: the record's join date is day a of month b of year yyyy.
C3_AmbiguousIsDayFirst ==
  Aligned /\ \A k \in 1..Len(members) :
    LET f == FormOf(k) IN
      (f.ok /\ f.a \in 1..12 /\ f.b \in 1..12)
        => /\ members[k].JoinDate = [y |-> f.y, m |-> f.b, d |-> f.a]
           /\ \A e \in 1..Len(logged) : logged[e].row # IdxOf(k)

C3_Witness ==
  /\ Aligned
  /\ \E k \in 1..Len(members) :
       /\ FormOf(k).ok
       /\ FormOf(k).a = 3 /\ FormOf(k).b = 4
       /\ members[k].JoinDate.d = 3 /\ members[k].JoinDate.m = 4

\* C4: a loop iteration on a retained row whose join date matches no layout
\* appends one record whose join date is the clock's date at that moment,
\* whose expiration is one year after it and whose names are the trimmed
\* fields 1, 2, 3; it leaves the run without error, up to the return.
C4_FallbackStep ==
  /\ ( /\ pc = "loop" /\ i < Len(data) /\ i' = i + 1
       /\ i >= 1 /\ Len(data[i + 1]) >= 6
       /\ parseDate(variant, data[i + 1][6]).err )
       => /\ pc' = "loop" /\ err' = "none"
          /\ Len(members') = Len(members) + 1
          /\ SubSeq(members', 1, Len(members)) = members
          /\ LET m == members'[Len(members')] IN
               /\ m.JoinDate = clock
               /\ m.ExpirationDate.y = m.JoinDate.y + 1
               /\ IF IsFeb29(m.JoinDate)
                    THEN m.ExpirationDate.m = 3 /\ m.ExpirationDate.d = 1
                    ELSE /\ m.ExpirationDate.m = m.JoinDate.m
                         /\ m.ExpirationDate.d = m.JoinDate.d
               /\ NamesFrom(m, data[i + 1])
  /\ (pc = "loop" /\ pc' = "returned") => (err' = "none" /\ members' = members)

C4_FallbackToNow == [][C4_FallbackStep]_vars

C4_Witness ==
  /\ Aligned
  /\ pc = "returned" /\ err = "none"
  /\ \E k \in 1..Len(members) :
       /\ ~Parsed(k)
       /\ members[k].JoinDate = clock
       /\ IsFeb29(clock)

\* C5: when the remote is unreachable or answers with a non-success status,
\* readCSVFromUrl returns an error and no records.
C5_NonSuccessIsError ==
  (Returned /\ status \notin 200..299)
    => (err # "none" /\ members = <<>>)

\* C6: row 0 never produces a record: the records never outnumber the rows
\* of index >= 1 the loop has gone through.
C6_HeaderNeverEmitted ==
  Len(members) <= (IF i = 0 THEN 0 ELSE i - 1)

C6_Witness ==
  /\ pc = "loop" /\ i = 1
  /\ Len(data[1]) >= 6
  /\ ~parseDate(variant, data[1][6]).err
  /\ members = <<>>

\* C7: on a successful run the output holds exactly one record per retained
\* row, in the order of the rows, whether their dates parsed or fell back.
C7_OneRecordPerRetainedRow ==
  (Returned /\ err = "none")
    => /\ Len(members) = Len(RetainedIdx(data))
       /\ \A k \in 1..Len(members) : NamesFrom(members[k], RowOf(k))

C7_Witness ==
  /\ Returned /\ err = "none"
  /\ Len(members) = 2
  /\ members[1].FirstName # members[2].FirstName
  /\ Parsed(1) # Parsed(2)

\* C8: the names of a record are fields 1, 2, 3 of its row without their
\* surrounding white space, its join date comes from field 5, and a run on
\* a feed that differs in fields 0, 4 and 6.. only, with the same clock
\* readings, builds the same records.
C8_OnlyFields1235 ==
  /\ twinMembers = members
  /\ Aligned
  /\ \A k \in 1..Len(members) :
       /\ NamesFrom(members[k], RowOf(k))
       /\ Parsed(k) =>
            members[k].JoinDate = parseDate(variant, RowOf(k)[6]).t

C8_Witness ==
  /\ Returned /\ err = "none"
  /\ Len(members) = 2
  /\ \A r \in 1..Len(data) : \A j \in {1, 5} : twinData[r][j] # data[r][j]
  /\ Len(data[2]) > 6 /\ twinData[2][7] # data[2][7]

\* C9: the response body is closed exactly once on every return that follows
\* a response, only at the return and only after ReadAll has consumed the
\* body or failed; when the fetch fails nothing is closed.
C9_BodyClosedOnce ==
  /\ closeCount <= 1
  /\ closeCount = 1 => (bodyRead /\ pc \in {"returned", "done"})
  /\ (Returned /\ status # 0) => closeCount = 1
  /\ status = 0 => closeCount = 0

C9_Witness ==
  /\ pc = "returned"
  /\ err \in {"parse", "fieldcount"}
  /\ closeCount = 1

\* the layouts C10 says decide every result
ReducedLayouts(v) ==
  <<DMYYYY, MDYYYY>> \o (IF v = "main" THEN <<YYYY>> ELSE <<>>)

\* "a/b/yyyy" whose month-first reading is a date and whose b is above 12
MonthFirstCase(f) ==
  f.ok /\ f.b > 12 /\ f.a \in 1..12 /\ f.b <= daysIn(f.a, f.y)

\* C10: for every retained row, the month-first layout decides the join
\* date exactly when the string is "a/b/yyyy" with b > 12 and month a, day b
\* a date; the record then has month a and day b and nothing is logged for
\* the row; and parseDate gives what D/M/YYYY, M/D/YYYY (and bare YYYY where
\* present) alone give, DD/M/YYYY and D/MM/YYYY never deciding.
C10_MonthFirstOnlyAbove12 ==
  Aligned /\ \A k \in 1..Len(members) :
    LET ds == RowOf(k)[6]
        f == FormOf(k)
        hit == FirstMatch(layouts(variant), ds)
    IN  /\ (hit = 3) <=> MonthFirstCase(f)
        /\ MonthFirstCase(f) =>
             /\ members[k].JoinDate = [y |-> f.y, m |-> f.a, d |-> f.b]
             /\ \A e \in 1..Len(logged) : logged[e].row # IdxOf(k)
        /\ hit \notin {4, 5}
        /\ parseDate(variant, ds) = parseWith(ReducedLayouts(variant), ds)

C10_Witness ==
  /\ Aligned
  /\ pc = "returned"
  /\ logged = <<>>
  /\ \E k \in 1..Len(members) :
       /\ MonthFirstCase(FormOf(k))
       /\ FormOf(k).a = 1 /\ FormOf(k).b = 13
       /\ members[k].JoinDate.m = 1 /\ members[k].JoinDate.d = 13

====
